---- MODULE Spec2Model ----
(***************************************************************************)
(* Model of internal/conf/config.go of birdnet-go: the process-wide        *)
(* settings store (Load, GetSettings, SaveSettings, Setting), the loader   *)
(* (initViper, createDefaultConfig) and the persister (SaveYAMLConfig).    *)
(*                                                                         *)
(* Goroutines are the processes of Procs.  Every blocking point of the     *)
(* code (sync.RWMutex, sync.Once) and every file-system call is one step.  *)
(* A file-system call may succeed or fail; the model takes both branches   *)
(* wherever the code tests the returned error.                             *)
(***************************************************************************)
EXTENDS Naturals, Sequences, FiniteSets, TLC

\* ------------------------------------------------------------------ bounds
NumProcs == 2       \* goroutines using the store
MaxCalls == 3       \* calls the goroutines start, all together
MaxLoads == 2       \* Settings structs allocated by Load
MaxMsgs  == 2       \* messages in one ValidationError

Procs == 1..NumProcs
None  == 0          \* no goroutine / nil pointer
NoFile == << <<"ENOENT", "">> >>     \* what a path holds at which no file exists

\* ------------------------------------------------- documents and snapshots
\* A document is a sequence of <<key, value>> lines.  The persisted fields
\* kept here are Main.Name, Security.BasicAuth.ClientSecret and
\* Backup.Targets; the runtime-only fields (yaml:"-") are ValidationWarnings
\* and BirdNET.RangeFilter.Species.
KeyName    == "main.name"
KeySecret  == "security.basicauth.clientsecret"
KeyTargets == "backup.targets"

Names   == {"BirdNET-Go", "node2"}
Secrets == {"", "s3cr3t"}
\* what the backup target list holds: nothing, or one target that is
\* enabled or not
TargetLists == {"[]", "[ftp on]", "[ftp off]"}

\* yaml.Marshal(settings): the persisted fields, in declaration order; the
\* fields tagged yaml:"-" do not appear.
Marshal(s) ==
    << <<KeyName, s.name>>, <<KeySecret, s.secret>>, <<KeyTargets, s.targets>> >>

\* the embedded config.yaml: the template defines no client secret
getDefaultConfig ==
    << <<KeyName, "BirdNET-Go">>, <<KeySecret, "">>, <<KeyTargets, "[]">> >>

\* the proper prefixes of d: what a write that fails part-way leaves behind
Prefixes(d) == { SubSeq(d, 1, n) : n \in 0..(Len(d) - 1) }

\* the value a document gives a key, or dflt when the document has no line
\* for it (the last line wins, as in a YAML mapping read top to bottom)
RECURSIVE DocValue(_, _, _)
DocValue(d, key, dflt) ==
    IF d = <<>> THEN dflt
    ELSE LET last == d[Len(d)]
         IN IF last[1] = key THEN last[2]
            ELSE DocValue(SubSeq(d, 1, Len(d) - 1), key, dflt)

\* ------------------------------------------------------ validation messages
\* Messages are character sequences, so that strings.Contains is computed.
Fallback     == <<"f","a","l","l","b","a","c","k">>
NotSupported == <<"n","o","t"," ","s","u","p","p","o","r","t","e","d">>

MsgLocale   == <<"x","x",":"," ">> \o Fallback \o <<" ","e","n">>
MsgOS       == <<"o","s"," ">> \o NotSupported
MsgPort     == <<"b","a","d"," ","p","o","r","t">>
MsgNearMiss == <<"F","a","l","l","b","a","c","k",";","n","o","t","s","u","p","p","o","r","t","e","d">>
Messages    == {MsgLocale, MsgOS, MsgPort, MsgNearMiss}

\* strings.Contains(s, sub)
Contains(s, sub) ==
    \E i \in 0..(Len(s) - Len(sub)) : SubSeq(s, i + 1, i + Len(sub)) = sub

\* the test of Load's loop body on one message
IsWarning(m) == Contains(m, Fallback) \/ Contains(m, NotSupported)

\* every sequence over S of length at most n
SeqsUpTo(S, n) == UNION { [1..k -> S] : k \in 0..n }

VARIABLES
    settingsInstance,   \* the package variable: None (nil) or an index of heap
    heap,               \* the Settings structs allocated so far
    mutexWriter,        \* settingsMutex: the goroutine inside Lock()..Unlock()
    mutexReaders,       \* settingsMutex: goroutines holding it shared
    mutexBlocked,       \* settingsMutex: readers parked behind the writer
    speciesReaders,     \* speciesListMutex: goroutines holding it shared
    speciesWriter,      \* speciesListMutex: the goroutine inside Lock()..Unlock()
    onceState,          \* once: "fresh", "running" or "done"
    viperFile,          \* viper: the document it has read (NoFile: none yet)
    viperOverride,      \* viper: <<v>> after viper.Set gave the secret v, else <<>>
    doc,                \* the file at the configuration path
    tmp,                \* per goroutine: the temporary file of its save
    stale,              \* temporary files left behind by finished saves
    exited,             \* "no", "fatal" (log.Fatalf) or "panic"
    pc,                 \* per goroutine: where it is
    frame,              \* per goroutine: the locals of the running call
    ret,                \* per goroutine: the *Settings its last call returned
    calls,              \* calls started so far
    log                 \* what the claims need of the history

vars == << settingsInstance, heap, mutexWriter, mutexReaders,
           mutexBlocked, speciesReaders, speciesWriter, onceState, viperFile,
           viperOverride,
           doc, tmp, stale, exited, pc, frame, ret, calls, log >>

storeVars == << settingsInstance, heap >>
lockVars  == << mutexWriter, mutexReaders, mutexBlocked >>
speciesVars == << speciesReaders, speciesWriter >>
viperVars == << viperFile, viperOverride >>
fsVars    == << doc, tmp, stale >>

\* ------------------------------------------------------------------- errors
NoErr == [cat |-> "nil", op |-> "", cause |-> "nil"]
Err(category, operation, inner) == [cat |-> category, op |-> operation, cause |-> inner]

\* the locals of a call that is not running
NoFrame == [op |-> "none"]


InitLog == [loadsOk       |-> 0,      \* Loads that have installed an instance
            settingLoads  |-> 0,      \* Loads started inside once.Do
            settingFailed |-> FALSE,  \* the Load inside once.Do returned an error
            settingRets   |-> 0]      \* Setting() calls that have returned

\* the state after the package's variables are initialised, for the
\* goroutines of G
InitFor(G) ==
    /\ settingsInstance = None
    /\ heap = <<>>
    /\ mutexWriter = None
    /\ mutexReaders = {}
    /\ mutexBlocked = {}
    /\ speciesReaders = {}
    /\ speciesWriter = None
    /\ onceState = "fresh"
    /\ viperFile = NoFile
    /\ viperOverride = <<>>
    /\ tmp = [p \in G |-> NoFile]
    /\ stale = 0
    /\ exited = "no"
    /\ pc = [p \in G |-> "idle"]
    /\ frame = [p \in G |-> NoFrame]
    /\ ret = [p \in G |-> None]
    /\ calls = 0
    /\ log = InitLog

InitCommon == InitFor(Procs)

\* the documents the program may find at start-up: none, or one written by
\* an earlier run
StartDocs == {NoFile, Marshal([name |-> "BirdNET-Go", secret |-> "", targets |-> "[]"]),
              Marshal([name |-> "node2", secret |-> "s3cr3t", targets |-> "[ftp on]"])}

Init == InitCommon /\ doc \in StartDocs

Running == exited = "no"
CanCall(p) == Running /\ pc[p] = "idle" /\ calls < MaxCalls

\* ------------------------------------------------- settingsMutex (RWMutex)
\* Lock() first takes the writer slot, which turns new readers away, and then
\* waits for the readers that are inside to leave.
CanLock == mutexWriter = None
\* WriterIn for a Lock() that does not wait for the readers to leave
WriterInAtOnce(p) == mutexWriter = p

WriterIn(p) == mutexWriter = p /\ mutexReaders = {}

\* RLock(): enters at once unless a writer has the slot; otherwise the
\* reader is parked and enters when that writer unlocks.
AfterRLock(p) ==
    /\ mutexReaders' = IF mutexWriter = None THEN mutexReaders \cup {p} ELSE mutexReaders
    /\ mutexBlocked' = IF mutexWriter = None THEN mutexBlocked ELSE mutexBlocked \cup {p}
    /\ UNCHANGED mutexWriter
ReaderIn(p) == p \in mutexReaders

AfterRUnlock(p) ==
    /\ mutexReaders' = mutexReaders \ {p}
    /\ UNCHANGED << mutexWriter, mutexBlocked >>

\* Unlock(): the parked readers enter before the next writer
AfterUnlock ==
    /\ mutexWriter' = None
    /\ mutexReaders' = mutexBlocked
    /\ mutexBlocked' = {}

\* --------------------------------------------------------------------- viper
\* ViperGet when what viper.Set stored is not looked at
\* (the next definition but one: viper.GetString / viper.Unmarshal, where an
\* explicit viper.Set wins over the document, and the document over the
\* defaults of setDefaultConfig)
ViperGetNoOverride(key) ==
    LET fromFile == IF viperFile = NoFile THEN <<>> ELSE viperFile
    IN DocValue(fromFile, key, DocValue(getDefaultConfig, key, ""))

ViperGet(key) ==
    LET fromFile == IF viperFile = NoFile THEN <<>> ELSE viperFile
    IN IF key = KeySecret /\ viperOverride # <<>>
       THEN viperOverride[1]
       ELSE DocValue(fromFile, key, DocValue(getDefaultConfig, key, ""))

\* what crypto/rand and the encoder give GenerateRandomSecret's callers: a
\* token, or "" when the entropy source fails
GenerateRandomSecret == {"", "r4nd0m"}

\* ---------------------------------------------------------------------- Load
\* NewSettings when Load fills the installed struct again instead of a new one
NewSettingsReused ==
    IF settingsInstance = None
    THEN [phase |-> "new", name |-> "", secret |-> "", targets |-> "[]",
          warnings |-> <<>>, species |-> <<>>]
    ELSE [heap[settingsInstance] EXCEPT !.phase = "new"]

\* settings := &Settings{}
NewSettings == [phase |-> "new", name |-> "", secret |-> "", targets |-> "[]",
                warnings |-> <<>>, species |-> <<>>]

\* Classify when the loop is left after its first message
ClassifyFirstOnly(msgs, warnings) ==
    IF msgs = <<>> THEN [fatal |-> FALSE, warnings |-> warnings, msg |-> <<>>]
    ELSE IF IsWarning(Head(msgs))
         THEN [fatal |-> FALSE, warnings |-> Append(warnings, Head(msgs)), msg |-> <<>>]
         ELSE [fatal |-> TRUE, warnings |-> warnings, msg |-> Head(msgs)]

\* the loop over validationErr.Errors: it appends warnings in order and
\* returns at the first message that is not a warning
RECURSIVE Classify(_, _)
Classify(msgs, warnings) ==
    IF msgs = <<>> THEN [fatal |-> FALSE, warnings |-> warnings, msg |-> <<>>]
    ELSE IF IsWarning(Head(msgs))
         THEN Classify(Tail(msgs), Append(warnings, Head(msgs)))
         ELSE [fatal |-> TRUE, warnings |-> warnings, msg |-> Head(msgs)]

LoadFail(p, e) ==
    /\ pc' = [pc EXCEPT ![p] = "ld_fail"]
    /\ frame' = [frame EXCEPT ![p].err = e]

\* settingsMutex.Lock(), called by a goroutine or from inside Setting()
Load_Lock(p) ==
    /\ Running
    /\ \/ CanCall(p)
       \/ pc[p] = "st_load"
    /\ Len(heap) < MaxLoads
    /\ CanLock
    /\ mutexWriter' = p
    /\ pc' = [pc EXCEPT ![p] = "ld_wait"]
    /\ frame' = [frame EXCEPT ![p] =
                    [op |-> "Load",
                     from |-> IF pc[p] = "st_load" THEN "Setting" ELSE "caller",
                     settings |-> None, before |-> None,
                     read |-> "none", made |-> "no", gen |-> <<>>,
                     dirMode |-> 0, fileMode |-> 0,
                     vkind |-> "none", msgs |-> <<>>, err |-> NoErr]]
    /\ calls' = IF pc[p] = "idle" THEN calls + 1 ELSE calls
    /\ UNCHANGED << storeVars, mutexReaders, mutexBlocked, speciesVars,
                    onceState, viperVars, fsVars, exited, ret, log >>

\* Load_New with the struct published as soon as it is allocated
Load_NewPublished(p) ==
    /\ Running /\ pc[p] = "ld_wait" /\ WriterIn(p)
    /\ heap' = Append(heap, NewSettings)
    /\ settingsInstance' = Len(heap) + 1
    /\ frame' = [frame EXCEPT ![p].settings = Len(heap) + 1,
                              ![p].before = settingsInstance]
    /\ pc' = [pc EXCEPT ![p] = "ld_initviper"]
    /\ UNCHANGED << lockVars, speciesVars, onceState,
                    viperVars, fsVars, exited, ret, calls, log >>

\* the readers have left and the lock is held; settings := &Settings{}
Load_New(p) ==
    /\ Running /\ pc[p] = "ld_wait" /\ WriterIn(p)
    /\ heap' = Append(heap, NewSettings)
    /\ frame' = [frame EXCEPT ![p].settings = Len(heap) + 1,
                              ![p].before = settingsInstance]
    /\ pc' = [pc EXCEPT ![p] = "ld_initviper"]
    /\ UNCHANGED << settingsInstance, lockVars, speciesVars, onceState,
                    viperVars, fsVars, exited, ret, calls, log >>

\* initViper when every failure of ReadInConfig leads to createDefaultConfig
initViperAnyFailure(p) ==
    /\ Running /\ pc[p] = "ld_initviper"
    /\ \/ /\ doc # NoFile
          /\ viperFile' = doc
          /\ pc' = [pc EXCEPT ![p] = "ld_unmarshal"]
          /\ frame' = [frame EXCEPT ![p].read = "ok"]
       \/ /\ pc' = [pc EXCEPT ![p] = "ld_createdefault"]
          /\ frame' = [frame EXCEPT ![p].read = IF doc = NoFile THEN "notfound" ELSE "error"]
          /\ UNCHANGED viperFile
    /\ UNCHANGED << storeVars, lockVars, speciesVars, onceState, viperOverride,
                    fsVars, exited, ret, calls, log >>

\* initViper, up to and including viper.ReadInConfig()
initViper(p) ==
    /\ Running /\ pc[p] = "ld_initviper"
    /\ \E outcome \in {"paths-error", "read"} :
         \/ /\ outcome = "paths-error"
            /\ LoadFail(p, Err("Configuration", "init-viper", "Configuration"))
            /\ UNCHANGED viperVars
         \/ /\ outcome = "read" /\ doc = NoFile     \* ConfigFileNotFoundError
            /\ pc' = [pc EXCEPT ![p] = "ld_createdefault"]
            /\ frame' = [frame EXCEPT ![p].read = "notfound"]
            /\ UNCHANGED viperVars
         \/ /\ outcome = "read" /\ doc # NoFile
            /\ \/ /\ viperFile' = doc
                  /\ pc' = [pc EXCEPT ![p] = "ld_unmarshal"]
                  /\ frame' = [frame EXCEPT ![p].read = "ok"]
                  /\ UNCHANGED viperOverride
               \/ /\ pc' = [pc EXCEPT ![p] = "ld_fail"]
                  /\ frame' = [frame EXCEPT
                                 ![p].read = "error",
                                 ![p].err = Err("Configuration", "init-viper", "FileIO")]
                  /\ UNCHANGED viperVars
    /\ UNCHANGED << storeVars, lockVars, speciesVars, onceState, fsVars,
                    exited, ret, calls, log >>

\* the permission bits createDefaultConfig passes to os.MkdirAll and
\* os.WriteFile: 0o755 and 0o600
DirMode  == 493
FileMode == 384

\* createDefaultConfig when the secret is put into the text that is written
createDefaultConfigWritesSecret(p) ==
    /\ Running /\ pc[p] = "ld_createdefault"
    /\ \E outcome \in {"paths-error", "mkdir-error", "write-error", "reread-error", "ok"},
          secret \in GenerateRandomSecret :
         LET unset    == ViperGet(KeySecret) = ""
             override == IF unset THEN <<secret>> ELSE viperOverride
             gen      == IF unset THEN <<secret>> ELSE <<>>
             written  == IF override = <<>> THEN "" ELSE override[1]
             Fail(e, dm, fm) ==
                 /\ pc' = [pc EXCEPT ![p] = "ld_fail"]
                 /\ frame' = [frame EXCEPT ![p].err = e, ![p].made = outcome,
                                           ![p].gen = IF outcome = "paths-error" THEN <<>> ELSE gen,
                                           ![p].dirMode = dm, ![p].fileMode = fm]
         IN \/ /\ outcome = "paths-error"
               /\ Fail(Err("Configuration", "init-viper", "Configuration"), 0, 0)
               /\ UNCHANGED << viperVars, doc >>
            \/ /\ outcome = "mkdir-error"
               /\ viperOverride' = override
               /\ Fail(Err("Configuration", "init-viper", "FileIO"), 0, 0)
               /\ UNCHANGED << viperFile, doc >>
            \/ /\ outcome = "write-error"
               /\ viperOverride' = override
               /\ doc' \in {NoFile} \cup Prefixes(getDefaultConfig)
               /\ Fail(Err("Configuration", "init-viper", "FileIO"), DirMode,
                       IF doc' = NoFile THEN 0 ELSE FileMode)
               /\ UNCHANGED viperFile
            \/ /\ outcome = "reread-error"
               /\ viperOverride' = override
               /\ doc' = [getDefaultConfig EXCEPT ![2] = <<KeySecret, written>>]
               /\ Fail(Err("Configuration", "init-viper", "viper"), DirMode, FileMode)
               /\ UNCHANGED viperFile
            \/ /\ outcome = "ok"
               /\ viperOverride' = override
               /\ doc' = [getDefaultConfig EXCEPT ![2] = <<KeySecret, written>>]
               /\ viperFile' = getDefaultConfig
               /\ pc' = [pc EXCEPT ![p] = "ld_unmarshal"]
               /\ frame' = [frame EXCEPT ![p].made = outcome, ![p].gen = gen,
                                         ![p].dirMode = DirMode, ![p].fileMode = FileMode]
    /\ UNCHANGED << storeVars, lockVars, speciesVars, onceState, tmp, stale,
                    exited, ret, calls, log >>

\* createDefaultConfig: the secret, the directories, the file, the re-read
createDefaultConfig(p) ==
    /\ Running /\ pc[p] = "ld_createdefault"
    /\ \E outcome \in {"paths-error", "mkdir-error", "write-error", "reread-error", "ok"},
          secret \in GenerateRandomSecret :
         LET unset    == ViperGet(KeySecret) = ""
             override == IF unset THEN <<secret>> ELSE viperOverride
             gen      == IF unset THEN <<secret>> ELSE <<>>
             Fail(e, dm, fm) ==
                 /\ pc' = [pc EXCEPT ![p] = "ld_fail"]
                 /\ frame' = [frame EXCEPT ![p].err = e, ![p].made = outcome,
                                           ![p].gen = IF outcome = "paths-error" THEN <<>> ELSE gen,
                                           ![p].dirMode = dm, ![p].fileMode = fm]
         IN \/ /\ outcome = "paths-error"
               /\ Fail(Err("Configuration", "init-viper", "Configuration"), 0, 0)
               /\ UNCHANGED << viperVars, doc >>
            \/ /\ outcome = "mkdir-error"
               /\ viperOverride' = override
               /\ Fail(Err("Configuration", "init-viper", "FileIO"), 0, 0)
               /\ UNCHANGED << viperFile, doc >>
            \/ /\ outcome = "write-error"
               /\ viperOverride' = override
               /\ doc' \in {NoFile} \cup Prefixes(getDefaultConfig)
               /\ Fail(Err("Configuration", "init-viper", "FileIO"), DirMode,
                       IF doc' = NoFile THEN 0 ELSE FileMode)
               /\ UNCHANGED viperFile
            \/ /\ outcome = "reread-error"
               /\ viperOverride' = override
               /\ doc' = getDefaultConfig
               /\ Fail(Err("Configuration", "init-viper", "viper"), DirMode, FileMode)
               /\ UNCHANGED viperFile
            \/ /\ outcome = "ok"
               /\ viperOverride' = override
               /\ doc' = getDefaultConfig
               /\ viperFile' = getDefaultConfig
               /\ pc' = [pc EXCEPT ![p] = "ld_unmarshal"]
               /\ frame' = [frame EXCEPT ![p].made = outcome, ![p].gen = gen,
                                         ![p].dirMode = DirMode, ![p].fileMode = FileMode]
    /\ UNCHANGED << storeVars, lockVars, speciesVars, onceState, tmp, stale,
                    exited, ret, calls, log >>

\* Load_Unmarshal when the values are merged into the installed struct, if
\* there is one
Load_UnmarshalInPlace(p) ==
    /\ Running /\ pc[p] = "ld_unmarshal"
    /\ LET into == IF settingsInstance # None THEN settingsInstance ELSE frame[p].settings
       IN heap' = [heap EXCEPT ![into] =
                     [@ EXCEPT !.phase = "populated",
                               !.name = ViperGet(KeyName),
                               !.secret = ViperGet(KeySecret),
                               !.targets = ViperGet(KeyTargets)]]
    /\ pc' = [pc EXCEPT ![p] = "ld_validate"]
    /\ UNCHANGED << settingsInstance, lockVars, speciesVars, onceState,
                    viperVars, fsVars, exited, frame, ret, calls, log >>

\* viper.Unmarshal(settings)
Load_Unmarshal(p) ==
    /\ Running /\ pc[p] = "ld_unmarshal"
    /\ \/ /\ heap' = [heap EXCEPT ![frame[p].settings] =
                        [@ EXCEPT !.phase = "populated",
                                  !.name = ViperGet(KeyName),
                                  !.secret = ViperGet(KeySecret),
                                  !.targets = ViperGet(KeyTargets)]]
          /\ pc' = [pc EXCEPT ![p] = "ld_validate"]
          /\ UNCHANGED frame
       \/ /\ LoadFail(p, Err("Configuration", "unmarshal-config", "viper"))
          /\ UNCHANGED heap
    /\ UNCHANGED << settingsInstance, lockVars, speciesVars, onceState,
                    viperVars, fsVars, exited, ret, calls, log >>

\* ValidateSettings(settings), the classification of what it returns and, when
\* nothing is fatal, settingsInstance = settings
Load_Validate(p) ==
    /\ Running /\ pc[p] = "ld_validate"
    /\ \/ \E msgs \in SeqsUpTo(Messages, MaxMsgs) :
            LET r == Classify(msgs, heap[frame[p].settings].warnings)
            IN /\ heap' = [heap EXCEPT ![frame[p].settings] =
                             [@ EXCEPT !.warnings = r.warnings,
                                       !.phase = IF r.fatal THEN @ ELSE "validated"]]
               /\ pc' = [pc EXCEPT ![p] = IF r.fatal THEN "ld_fail" ELSE "ld_return"]
               /\ settingsInstance' = IF r.fatal THEN settingsInstance ELSE frame[p].settings
               /\ log' = IF r.fatal THEN log ELSE [log EXCEPT !.loadsOk = 1]
               /\ frame' = [frame EXCEPT
                              ![p].vkind = "messages",
                              ![p].msgs = msgs,
                              ![p].err = IF r.fatal
                                         THEN Err("Validation", "settings", "Validation")
                                         ELSE NoErr]
       \/ /\ pc' = [pc EXCEPT ![p] = "ld_fail"]      \* not a ValidationError
          /\ frame' = [frame EXCEPT ![p].vkind = "other",
                                    ![p].err = Err("Validation", "settings", "other")]
          /\ UNCHANGED << heap, settingsInstance, log >>
    /\ UNCHANGED << lockVars, speciesVars, onceState,
                    viperVars, fsVars, exited, ret, calls >>

\* Load_Return when a failed Load clears the package variable
Load_ReturnClears(p) ==
    /\ Running /\ pc[p] \in {"ld_return", "ld_fail"}
    /\ AfterUnlock
    /\ settingsInstance' = IF pc[p] = "ld_fail" THEN None ELSE settingsInstance
    /\ ret' = [ret EXCEPT ![p] = IF pc[p] = "ld_return" THEN settingsInstance ELSE None]
    /\ heap' = IF settingsInstance # Len(heap) THEN SubSeq(heap, 1, Len(heap) - 1) ELSE heap
    /\ pc' = [pc EXCEPT ![p] = IF frame[p].from = "Setting" THEN "st_loaded" ELSE "idle"]
    /\ frame' = [frame EXCEPT ![p] = IF frame[p].from = "Setting"
                                      THEN [op |-> "Setting", err |-> frame[p].err.cat]
                                      ELSE NoFrame]
    /\ log' = IF frame[p].from = "Setting" /\ pc[p] = "ld_fail"
              THEN [log EXCEPT !.settingFailed = TRUE] ELSE log
    /\ UNCHANGED << speciesVars, onceState, viperVars, fsVars, exited, calls >>

\* return, and the deferred settingsMutex.Unlock(); a struct that was not
\* installed is garbage from here on
Load_Return(p) ==
    /\ Running /\ pc[p] \in {"ld_return", "ld_fail"}
    /\ AfterUnlock
    /\ ret' = [ret EXCEPT ![p] = IF pc[p] = "ld_return" THEN settingsInstance ELSE None]
    /\ heap' = IF settingsInstance # Len(heap) THEN SubSeq(heap, 1, Len(heap) - 1) ELSE heap
    /\ pc' = [pc EXCEPT ![p] = IF frame[p].from = "Setting" THEN "st_loaded" ELSE "idle"]
    /\ frame' = [frame EXCEPT ![p] = IF frame[p].from = "Setting"
                                      THEN [op |-> "Setting", err |-> frame[p].err.cat]
                                      ELSE NoFrame]
    /\ log' = IF frame[p].from = "Setting" /\ pc[p] = "ld_fail"
              THEN [log EXCEPT !.settingFailed = TRUE] ELSE log
    /\ UNCHANGED << settingsInstance, speciesVars, onceState, viperVars,
                    fsVars, exited, calls >>

\* --------------------------------------------------------------- GetSettings
\* settingsMutex.RLock(), called by a goroutine, as Setting()'s last line or
\* by the refresher of the species list
GetSettings_RLock(p) ==
    /\ Running
    /\ \/ CanCall(p)
       \/ pc[p] \in {"st_get", "rf_get"}
    /\ AfterRLock(p)
    /\ pc' = [pc EXCEPT ![p] = "gs_read"]
    /\ frame' = [frame EXCEPT ![p] =
                    [op |-> "GetSettings",
                     from |-> IF pc[p] = "st_get" THEN "Setting"
                              ELSE IF pc[p] = "rf_get" THEN "Refresher" ELSE "caller"]]
    /\ calls' = IF pc[p] = "idle" THEN calls + 1 ELSE calls
    /\ UNCHANGED << storeVars, speciesVars, onceState, viperVars, fsVars,
                    exited, ret, log >>

\* return settingsInstance, and the deferred settingsMutex.RUnlock()
GetSettings_Return(p) ==
    /\ Running /\ pc[p] = "gs_read" /\ ReaderIn(p)
    /\ AfterRUnlock(p)
    /\ ret' = [ret EXCEPT ![p] = settingsInstance]
    /\ pc' = [pc EXCEPT ![p] = IF frame[p].from = "Refresher" THEN "rf_store" ELSE "idle"]
    /\ frame' = [frame EXCEPT ![p] = IF frame[p].from = "Refresher"
                                      THEN [op |-> "Refresher"] ELSE NoFrame]
    /\ log' = IF frame[p].from = "Setting"
              THEN [log EXCEPT !.settingRets = @ + 1] ELSE log
    /\ UNCHANGED << storeVars, speciesVars, onceState, viperVars, fsVars,
                    exited, calls >>

\* ------------------------------------------------------------------- Setting
\* Setting_Once with a flag tested and set without mutual exclusion: a caller
\* that arrives while the function runs runs it too
Setting_OnceUnguarded(p) ==
    /\ CanCall(p)
    /\ onceState' = IF onceState = "fresh" THEN "running" ELSE onceState
    /\ pc' = [pc EXCEPT ![p] = IF onceState # "done" THEN "st_check" ELSE "st_get"]
    /\ frame' = [frame EXCEPT ![p] = [op |-> "Setting", err |-> "nil"]]
    /\ calls' = calls + 1
    /\ UNCHANGED << storeVars, lockVars, speciesVars, viperVars, fsVars,
                    exited, ret, log >>

\* once.Do: the first caller runs the function, callers that arrive while it
\* runs wait for it, later callers skip it
Setting_Once(p) ==
    /\ CanCall(p)
    /\ onceState # "running"
    /\ onceState' = IF onceState = "fresh" THEN "running" ELSE onceState
    /\ pc' = [pc EXCEPT ![p] = IF onceState = "fresh" THEN "st_check" ELSE "st_get"]
    /\ frame' = [frame EXCEPT ![p] = [op |-> "Setting", err |-> "nil"]]
    /\ calls' = calls + 1
    /\ UNCHANGED << storeVars, lockVars, speciesVars, viperVars, fsVars,
                    exited, ret, log >>

\* what a read of settingsInstance outside the lock may see: the value in
\* memory, or the value a Load that has stored but not yet unlocked replaced
UnlockedRead ==
    {settingsInstance} \cup { frame[q].before : q \in {r \in Procs : pc[r] = "ld_return"} }

\* if settingsInstance == nil (read without the lock)
Setting_Check(p) ==
    /\ Running /\ pc[p] = "st_check"
    /\ \E seen \in UnlockedRead :
         /\ pc' = [pc EXCEPT ![p] = IF seen = None THEN "st_load" ELSE "st_get"]
         /\ onceState' = IF seen = None THEN onceState ELSE "done"
         /\ log' = IF seen = None THEN [log EXCEPT !.settingLoads = @ + 1] ELSE log
    /\ UNCHANGED << storeVars, lockVars, speciesVars, viperVars, fsVars,
                    exited, frame, ret, calls >>

\* Setting_Loaded with log.Printf in place of log.Fatalf
Setting_LoadedLogsOnly(p) ==
    /\ Running /\ pc[p] = "st_loaded"
    /\ onceState' = "done"
    /\ pc' = [pc EXCEPT ![p] = "st_get"]
    /\ UNCHANGED << storeVars, lockVars, speciesVars, viperVars, fsVars,
                    exited, frame, ret, calls, log >>

\* after Load(): log.Fatalf on an error, else the function ends
Setting_Loaded(p) ==
    /\ Running /\ pc[p] = "st_loaded"
    /\ IF frame[p].err # "nil"
       THEN /\ exited' = "fatal"
            /\ UNCHANGED << onceState, pc >>
       ELSE /\ onceState' = "done"
            /\ pc' = [pc EXCEPT ![p] = "st_get"]
            /\ UNCHANGED exited
    /\ UNCHANGED << storeVars, lockVars, speciesVars, viperVars, fsVars,
                    frame, ret, calls, log >>

\* ------------------------------------------------------------ SaveYAMLConfig
\* the validated Settings values a caller may hand to SaveYAMLConfig
Snapshots ==
    { [phase |-> "validated", name |-> n, secret |-> s, targets |-> t,
       warnings |-> w, species |-> <<>>] :
        n \in Names, s \in Secrets, t \in {"[]", "[ftp on]"}, w \in {<<>>, <<MsgLocale>>} }

\* the locals of SaveYAMLConfig after yamlData, err := yaml.Marshal(settings)
SvFrame(caller, s, marshalled) ==
    [op |-> "SaveYAMLConfig", from |-> caller, snap |-> s,
     data |-> IF marshalled THEN Marshal(s) ELSE <<>>,
     before |-> doc, created |-> FALSE, removeFailed |-> FALSE, via |-> "none",
     tempDir |-> "", steps |-> <<>>, renameErr |-> "",
     err |-> IF marshalled THEN NoErr ELSE Err("Configuration", "yaml-marshal", "yaml")]

SvFail(p, next, e) ==
    /\ pc' = [pc EXCEPT ![p] = next]
    /\ frame' = [frame EXCEPT ![p].err = e]

\* the file-system calls SaveYAMLConfig has made so far, each with its outcome
Stepped(p, call, outcome) == Append(frame[p].steps, <<call, outcome>>)

\* a file-system call of SaveYAMLConfig fails and the error e is returned
SvStepFail(p, next, e, call, outcome) ==
    /\ pc' = [pc EXCEPT ![p] = next]
    /\ frame' = [frame EXCEPT ![p].err = e, ![p].steps = Stepped(p, call, outcome)]

\* a direct call SaveYAMLConfig(configPath, settings), up to the test of
\* yaml.Marshal's error
SaveYAMLConfig_Call(p) ==
    /\ CanCall(p)
    /\ \E s \in Snapshots, marshalled \in BOOLEAN :
         /\ frame' = [frame EXCEPT ![p] = SvFrame("caller", s, marshalled)]
         /\ pc' = [pc EXCEPT ![p] = IF marshalled THEN "sv_createtemp" ELSE "sv_return"]
    /\ calls' = calls + 1
    /\ UNCHANGED << storeVars, lockVars, speciesVars, onceState, viperVars,
                    fsVars, exited, ret, log >>

\* os.CreateTemp(filepath.Dir(configPath), "config-*.yaml") and the defer
SaveYAMLConfig_CreateTemp(p) ==
    /\ Running /\ pc[p] = "sv_createtemp"
    /\ \/ /\ tmp' = [tmp EXCEPT ![p] = <<>>]
          /\ UNCHANGED stale
          /\ frame' = [frame EXCEPT ![p].created = TRUE,
                                    ![p].tempDir = "Dir(configPath)",
                                    ![p].steps = Stepped(p, "create-temp", "ok")]
          /\ pc' = [pc EXCEPT ![p] = "sv_write"]
       \/ /\ SvStepFail(p, "sv_return", Err("FileIO", "create-temp-file", "os"),
                         "create-temp", "error")
          /\ UNCHANGED << tmp, stale >>
    /\ UNCHANGED << storeVars, lockVars, speciesVars, onceState, viperVars,
                    doc, exited, ret, calls, log >>

\* SaveYAMLConfig_Write when the count Write returns is not looked at: a
\* short write passes for a complete one
SaveYAMLConfig_WriteShort(p) ==
    /\ Running /\ pc[p] = "sv_write"
    /\ \E part \in Prefixes(frame[p].data) \cup {frame[p].data} :
         tmp' = [tmp EXCEPT ![p] = part]
    /\ pc' = [pc EXCEPT ![p] = "sv_close"]
    /\ UNCHANGED << storeVars, lockVars, speciesVars, onceState, viperVars,
                    doc, stale, exited, frame, ret, calls, log >>

\* tempFile.Write(yamlData): all of it, or an error and a part of it
SaveYAMLConfig_Write(p) ==
    /\ Running /\ pc[p] = "sv_write"
    /\ \/ /\ tmp' = [tmp EXCEPT ![p] = frame[p].data]
          /\ pc' = [pc EXCEPT ![p] = "sv_close"]
          /\ frame' = [frame EXCEPT ![p].steps = Stepped(p, "write", "ok")]
       \/ /\ \E part \in Prefixes(frame[p].data) : tmp' = [tmp EXCEPT ![p] = part]
          /\ SvStepFail(p, "sv_defer", Err("FileIO", "write-temp-file", "os"),
                        "write", "error")
    /\ UNCHANGED << storeVars, lockVars, speciesVars, onceState, viperVars,
                    doc, stale, exited, ret, calls, log >>

\* SaveYAMLConfig_Close when the close error returns before the removal of
\* the temporary file is arranged
SaveYAMLConfig_CloseNoCleanup(p) ==
    /\ Running /\ pc[p] = "sv_close"
    /\ \/ /\ pc' = [pc EXCEPT ![p] = "sv_rename"]
          /\ UNCHANGED frame
       \/ SvFail(p, "sv_return", Err("FileIO", "close-temp-file", "os"))
    /\ UNCHANGED << storeVars, lockVars, speciesVars, onceState, viperVars,
                    fsVars, exited, ret, calls, log >>

\* tempFile.Close()
SaveYAMLConfig_Close(p) ==
    /\ Running /\ pc[p] = "sv_close"
    /\ \/ /\ pc' = [pc EXCEPT ![p] = "sv_rename"]
          /\ frame' = [frame EXCEPT ![p].steps = Stepped(p, "close", "ok")]
       \/ SvStepFail(p, "sv_defer", Err("FileIO", "close-temp-file", "os"),
                     "close", "error")
    /\ UNCHANGED << storeVars, lockVars, speciesVars, onceState, viperVars,
                    fsVars, exited, ret, calls, log >>

\* the errors os.Rename may give: the two paths are on different file
\* systems, or any other; the error is a local of the if statement that
\* calls moveFile and is gone when the function's deferred call has run
RenameErrors == {"EXDEV", "EACCES"}

\* SaveYAMLConfig_Rename when a failed rename is returned as the error
SaveYAMLConfig_RenameNoFallback(p) ==
    /\ Running /\ pc[p] = "sv_rename"
    /\ \/ /\ doc' = tmp[p]
          /\ tmp' = [tmp EXCEPT ![p] = NoFile]
          /\ pc' = [pc EXCEPT ![p] = "sv_defer"]
          /\ frame' = [frame EXCEPT ![p].via = "rename",
                                    ![p].steps = Stepped(p, "rename", "ok")]
       \/ /\ \E e \in RenameErrors :
                /\ pc' = [pc EXCEPT ![p] = "sv_defer"]
                /\ frame' = [frame EXCEPT
                               ![p].err = Err("FileIO", "move-config-file", "os"),
                               ![p].steps = Stepped(p, "rename", "error"),
                               ![p].renameErr = e]
          /\ UNCHANGED << doc, tmp >>
    /\ UNCHANGED << storeVars, lockVars, speciesVars, onceState, viperVars,
                    stale, exited, ret, calls, log >>

\* SaveYAMLConfig_Rename when the destination is written in place: another
\* goroutine's bytes may stay where this one's were to go
SaveYAMLConfig_RenameInPlace(p) ==
    /\ Running /\ pc[p] = "sv_rename"
    /\ \/ /\ doc' \in { SubSeq(tmp[p], 1, k) \o SubSeq(doc, k + 1, Len(doc)) :
                          k \in 0..Len(tmp[p]) }
          /\ tmp' = [tmp EXCEPT ![p] = NoFile]
          /\ pc' = [pc EXCEPT ![p] = "sv_defer"]
          /\ frame' = [frame EXCEPT ![p].via = "rename",
                                    ![p].steps = Stepped(p, "rename", "ok")]
       \/ /\ pc' = [pc EXCEPT ![p] = "sv_move"]
          /\ \E e \in RenameErrors :
                frame' = [frame EXCEPT ![p].steps = Stepped(p, "rename", "error"),
                                       ![p].renameErr = e]
          /\ UNCHANGED << doc, tmp >>
    /\ UNCHANGED << storeVars, lockVars, speciesVars, onceState, viperVars,
                    stale, exited, ret, calls, log >>

\* os.Rename(tempFileName, configPath): replaces the document in one step,
\* or fails and leaves both files as they are; after any failure moveFile is
\* called
SaveYAMLConfig_Rename(p) ==
    /\ Running /\ pc[p] = "sv_rename"
    /\ \/ /\ doc' = tmp[p]
          /\ tmp' = [tmp EXCEPT ![p] = NoFile]
          /\ pc' = [pc EXCEPT ![p] = "sv_defer"]
          /\ frame' = [frame EXCEPT ![p].via = "rename",
                                    ![p].steps = Stepped(p, "rename", "ok")]
       \/ /\ pc' = [pc EXCEPT ![p] = "sv_move"]
          /\ \E e \in RenameErrors :
                frame' = [frame EXCEPT ![p].steps = Stepped(p, "rename", "error"),
                                       ![p].renameErr = e]
          /\ UNCHANGED << doc, tmp >>
    /\ UNCHANGED << storeVars, lockVars, speciesVars, onceState, viperVars,
                    stale, exited, ret, calls, log >>

\* moveFile(tempFileName, configPath): copy the temporary file over the
\* document, then delete the temporary file
moveFile(p) ==
    /\ Running /\ pc[p] = "sv_move"
    /\ \E outcome \in {"open-error", "copy-error", "delete-error", "ok"} :
         \/ /\ outcome = "open-error"
            /\ SvStepFail(p, "sv_defer", Err("FileIO", "move-config-file", "os"),
                          "move", outcome)
            /\ UNCHANGED << doc, tmp >>
         \/ /\ outcome = "copy-error"
            /\ doc' \in Prefixes(tmp[p])
            /\ SvStepFail(p, "sv_defer", Err("FileIO", "move-config-file", "os"),
                          "move", outcome)
            /\ UNCHANGED tmp
         \/ /\ outcome = "delete-error"
            /\ doc' = tmp[p]
            /\ SvStepFail(p, "sv_defer", Err("FileIO", "move-config-file", "os"),
                          "move", outcome)
            /\ UNCHANGED tmp
         \/ /\ outcome = "ok"
            /\ doc' = tmp[p]
            /\ tmp' = [tmp EXCEPT ![p] = NoFile]
            /\ pc' = [pc EXCEPT ![p] = "sv_defer"]
            /\ frame' = [frame EXCEPT ![p].via = "move",
                                      ![p].steps = Stepped(p, "move", "ok")]
    /\ UNCHANGED << storeVars, lockVars, speciesVars, onceState, viperVars,
                    stale, exited, ret, calls, log >>

\* the deferred os.Remove(tempFileName): nothing to do when the file is gone
\* (IsNotExist); any other failure is only logged
SaveYAMLConfig_Defer(p) ==
    /\ Running /\ pc[p] = "sv_defer"
    /\ \/ /\ tmp' = [tmp EXCEPT ![p] = NoFile]
          /\ frame' = [frame EXCEPT ![p].renameErr = ""]
       \/ /\ tmp[p] # NoFile
          /\ frame' = [frame EXCEPT ![p].removeFailed = TRUE, ![p].renameErr = ""]
          /\ UNCHANGED tmp
    /\ pc' = [pc EXCEPT ![p] = "sv_return"]
    /\ UNCHANGED << storeVars, lockVars, speciesVars, onceState, viperVars,
                    doc, stale, exited, ret, calls, log >>

\* SaveYAMLConfig returns, to SaveSettings or to the goroutine that called it;
\* a temporary file that is still there stays behind for good
SaveYAMLConfig_Return(p) ==
    /\ Running /\ pc[p] = "sv_return"
    /\ tmp' = [tmp EXCEPT ![p] = NoFile]
    /\ stale' = IF tmp[p] = NoFile THEN stale ELSE stale + 1
    /\ pc' = [pc EXCEPT ![p] = IF frame[p].from = "SaveSettings" THEN "ss_return" ELSE "idle"]
    /\ frame' = [frame EXCEPT ![p] = IF frame[p].from = "SaveSettings" THEN @ ELSE NoFrame]
    /\ UNCHANGED << storeVars, lockVars, speciesVars, onceState, viperVars,
                    doc, exited, ret, calls, log >>

SaveYAMLConfigNext(p) ==
    \/ SaveYAMLConfig_CreateTemp(p)
    \/ SaveYAMLConfig_Write(p) \/ SaveYAMLConfig_Close(p)
    \/ SaveYAMLConfig_Rename(p) \/ moveFile(p)
    \/ SaveYAMLConfig_Defer(p) \/ SaveYAMLConfig_Return(p)

\* -------------------------------------------------------------- SaveSettings
\* settingsMutex.RLock()
SaveSettings_RLock(p) ==
    /\ CanCall(p)
    /\ AfterRLock(p)
    /\ pc' = [pc EXCEPT ![p] = "ss_copy"]
    /\ frame' = [frame EXCEPT ![p] = [op |-> "SaveSettings", copy |-> NewSettings,
                                      shares |-> None, err |-> NoErr]]
    /\ calls' = calls + 1
    /\ UNCHANGED << storeVars, speciesVars, onceState, viperVars, fsVars,
                    exited, ret, log >>

\* what a reader of the copy c of the struct at ref sees now: the assignment
\* copies the slice header of Backup.Targets, not its elements, so the copy
\* and the struct share them
Deref(c, ref) == [c EXCEPT !.targets = heap[ref].targets]

\* settingsCopy := *settingsInstance; with no instance installed this is a
\* nil dereference: the deferred RUnlock runs and the panic leaves the call,
\* ending the process unless a caller recovers
SaveSettings_Copy(p) ==
    /\ Running /\ pc[p] = "ss_copy" /\ ReaderIn(p)
    /\ IF settingsInstance = None
       THEN /\ AfterRUnlock(p)
            /\ exited' \in {"no", "panic"}
            /\ pc' = [pc EXCEPT ![p] = "idle"]
            /\ frame' = [frame EXCEPT ![p] = NoFrame]
            /\ UNCHANGED ret
       ELSE /\ frame' = [frame EXCEPT ![p].copy = heap[settingsInstance],
                                      ![p].shares = settingsInstance]
            /\ pc' = [pc EXCEPT ![p] = "ss_species"]
            /\ UNCHANGED << lockVars, exited, ret >>
    /\ UNCHANGED << storeVars, speciesVars, onceState, viperVars, fsVars,
                    calls, log >>

\* speciesListMutex.RLock(): enters unless a writer has the lock or waits for it
SaveSettings_SpeciesRLock(p) ==
    /\ Running /\ pc[p] = "ss_species"
    /\ speciesWriter = None
    /\ speciesReaders' = speciesReaders \cup {p}
    /\ UNCHANGED speciesWriter
    /\ pc' = [pc EXCEPT ![p] = "ss_speciescopy"]
    /\ UNCHANGED << storeVars, lockVars, onceState, viperVars, fsVars, exited,
                    frame, ret, calls, log >>

\* SaveSettings_SpeciesCopy with source and destination of the copy exchanged:
\* the live list is overwritten with the new, empty one
SaveSettings_SpeciesCopyInto(p) ==
    /\ Running /\ pc[p] = "ss_speciescopy"
    /\ heap' = [heap EXCEPT ![settingsInstance].species = <<>>]
    /\ speciesReaders' = speciesReaders \ {p}
    /\ UNCHANGED speciesWriter
    /\ pc' = [pc EXCEPT ![p] = "ss_find"]
    /\ UNCHANGED << settingsInstance, lockVars, onceState, viperVars, fsVars, exited,
                    frame, ret, calls, log >>

\* make + copy of the species list, speciesListMutex.RUnlock()
SaveSettings_SpeciesCopy(p) ==
    /\ Running /\ pc[p] = "ss_speciescopy"
    /\ frame' = [frame EXCEPT ![p].copy.species = heap[settingsInstance].species]
    /\ speciesReaders' = speciesReaders \ {p}
    /\ UNCHANGED speciesWriter
    /\ pc' = [pc EXCEPT ![p] = "ss_find"]
    /\ UNCHANGED << storeVars, lockVars, onceState, viperVars, fsVars, exited,
                    ret, calls, log >>

\* configPath, err := FindConfigFile(), then SaveYAMLConfig(configPath,
\* &settingsCopy) up to the test of yaml.Marshal's error
SaveSettings_FindConfigFile(p) ==
    /\ Running /\ pc[p] = "ss_find"
    /\ \/ \E marshalled \in BOOLEAN :
            /\ frame' = [frame EXCEPT ![p] =
                            SvFrame("SaveSettings", Deref(frame[p].copy, frame[p].shares),
                                    marshalled)
                            @@ [copied |-> frame[p].copy]]
            /\ pc' = [pc EXCEPT ![p] = IF marshalled THEN "sv_createtemp" ELSE "sv_return"]
       \/ SvFail(p, "ss_return", Err("FileIO", "find-config-file", "os"))
    /\ UNCHANGED << storeVars, lockVars, speciesVars, onceState, viperVars,
                    fsVars, exited, ret, calls, log >>

\* return, and the deferred settingsMutex.RUnlock()
SaveSettings_Return(p) ==
    /\ Running /\ pc[p] = "ss_return"
    /\ AfterRUnlock(p)
    /\ pc' = [pc EXCEPT ![p] = "idle"]
    /\ frame' = [frame EXCEPT ![p] = NoFrame]
    /\ UNCHANGED << storeVars, speciesVars, onceState, viperVars, fsVars,
                    exited, ret, calls, log >>

\* a goroutine writes through the pointer its last call returned: it flips
\* Enabled of the backup target in place, or stores a refreshed range-filter
\* species list
Caller_Write(p) ==
    /\ Running /\ pc[p] = "idle" /\ ret[p] # None
    /\ \/ /\ heap[ret[p]].targets # "[]"
          /\ heap' = [heap EXCEPT ![ret[p]].targets =
                          IF @ = "[ftp on]" THEN "[ftp off]" ELSE "[ftp on]"]
       \/ \E l \in {<<>>, <<"Parus major">>} \ {heap[ret[p]].species} :
            heap' = [heap EXCEPT ![ret[p]].species = l]
    /\ UNCHANGED << settingsInstance, lockVars, speciesVars, onceState,
                    viperVars, fsVars, exited, pc, frame, ret, calls, log >>

SaveSettingsNext(p) ==
    \/ SaveSettings_RLock(p) \/ SaveSettings_Copy(p)
    \/ SaveSettings_SpeciesRLock(p) \/ SaveSettings_SpeciesCopy(p)
    \/ SaveSettings_FindConfigFile(p) \/ SaveSettings_Return(p)

LoadNext(p) ==
    \/ Load_Lock(p) \/ Load_New(p) \/ initViper(p) \/ createDefaultConfig(p)
    \/ Load_Unmarshal(p) \/ Load_Validate(p) \/ Load_Return(p)

SettingNext(p) ==
    \/ GetSettings_RLock(p) \/ GetSettings_Return(p)
    \/ Setting_Once(p) \/ Setting_Check(p) \/ Setting_Loaded(p)

\* the store, used by NumProcs goroutines
Next ==
    \E p \in Procs :
        LoadNext(p) \/ SettingNext(p) \/ SaveSettingsNext(p) \/ SaveYAMLConfigNext(p)

Spec == Init /\ [][Next]_vars

\* one goroutine loads and writes through the pointer it got, another saves
NextSaveSettings ==
    \/ LoadNext(1) \/ Caller_Write(1)
    \/ SaveSettingsNext(2) \/ SaveYAMLConfigNext(2)

SpecSaveSettings == Init /\ [][NextSaveSettings]_vars

\* the state after goroutine 1 has called Load() on a document found at
\* start-up and got its instance, with or without a warning
Loaded ==
    /\ doc \in StartDocs \ {NoFile}
    /\ viperFile = doc
    /\ viperOverride = <<>>
    /\ \E w \in {<<>>, <<MsgLocale>>} :
          heap = << [phase |-> "validated", name |-> DocValue(doc, KeyName, ""),
                     secret |-> DocValue(doc, KeySecret, ""),
                     targets |-> DocValue(doc, KeyTargets, ""),
                     warnings |-> w, species |-> <<>>] >>
    /\ settingsInstance = 1
    /\ ret = [p \in Procs |-> IF p = 1 THEN 1 ELSE None]
    /\ calls = 1
    /\ log = [InitLog EXCEPT !.loadsOk = 1]
    /\ mutexWriter = None /\ mutexReaders = {} /\ mutexBlocked = {}
    /\ speciesReaders = {} /\ speciesWriter = None
    /\ onceState = "fresh"
    /\ tmp = [p \in Procs |-> NoFile]
    /\ stale = 0
    /\ exited = "no"
    /\ pc = [p \in Procs |-> "idle"]
    /\ frame = [p \in Procs |-> NoFrame]

\* two goroutines save the loaded instance; goroutine 1 also writes through
\* the pointer it got
NextTwoSaves ==
    \/ Caller_Write(1)
    \/ \E p \in Procs : SaveSettingsNext(p) \/ SaveYAMLConfigNext(p)

SpecTwoSaves == Loaded /\ [][NextTwoSaves]_vars

\* one goroutine loads, and rewrites the document with SaveYAMLConfig
NextReload == LoadNext(1) \/ SaveYAMLConfig_Call(1) \/ SaveYAMLConfigNext(1)

SpecReload == Init /\ [][NextReload]_vars

\* the persister alone: one goroutine calls SaveYAMLConfig, again and again,
\* on a path that holds no file, a document, or what a failed copy left
SaveDocs == StartDocs \cup Prefixes(getDefaultConfig)

InitSave == InitCommon /\ doc \in SaveDocs

NextSave == SaveYAMLConfig_Call(1) \/ SaveYAMLConfigNext(1)

SpecSave == InitSave /\ [][NextSave]_vars

\* the loader alone: one goroutine calls Load and GetSettings, again and again
NextLoad == LoadNext(1) \/ GetSettings_RLock(1) \/ GetSettings_Return(1)

SpecLoad == Init /\ [][NextLoad]_vars

\* ---------------------------------------------- backup targets: Validate
\* One record stands for the six settings structs; a field a variant does not
\* have is left alone by that variant's Validate.
TargetTypes == {"local", "ftp", "sftp", "s3", "rsync", "gdrive"}
Ports       == {0, 21, 22, 2222}

TargetSettings ==
    [type : TargetTypes, host : {"", "nas"}, port : Ports, username : {"", "birder"},
     path : {"", "/backup"}, bucket : {"", "birds"}, region : {"", "eu-north-1"},
     credentials : {"", "sa.json"}]

FTPDefaultPort == 21
SSHDefaultPort == 22

\* error messages are sequences of words; the nil error is the empty one
NilError == <<>>
CannotBeEmpty(what) == what \o <<"cannot", "be", "empty">>

\* (*LocalBackupSettings).Validate
ValidateLocal(s) ==
    IF s.path = "" THEN [s |-> s, err |-> CannotBeEmpty(<<"local", "backup", "path">>)]
    ELSE [s |-> s, err |-> NilError]

\* (*FTPBackupSettings).Validate
ValidateFTP(s) ==
    IF s.host = "" THEN [s |-> s, err |-> CannotBeEmpty(<<"FTP", "host">>)]
    ELSE [s |-> [s EXCEPT !.port = IF @ = 0 THEN FTPDefaultPort ELSE @], err |-> NilError]

\* ValidateSFTP with the username test left out
ValidateSFTPNoUsername(s) ==
    IF s.host = "" THEN [s |-> s, err |-> CannotBeEmpty(<<"SFTP", "host">>)]
    ELSE [s |-> [s EXCEPT !.port = IF @ = 0 THEN SSHDefaultPort ELSE @], err |-> NilError]

\* (*SFTPBackupSettings).Validate: the port is set before the username is
\* tested
ValidateSFTP(s) ==
    IF s.host = "" THEN [s |-> s, err |-> CannotBeEmpty(<<"SFTP", "host">>)]
    ELSE LET t == [s EXCEPT !.port = IF @ = 0 THEN SSHDefaultPort ELSE @]
         IN IF t.username = ""
            THEN [s |-> t, err |-> CannotBeEmpty(<<"SFTP", "username">>)]
            ELSE [s |-> t, err |-> NilError]

\* (*S3BackupSettings).Validate
ValidateS3(s) ==
    IF s.bucket = "" THEN [s |-> s, err |-> CannotBeEmpty(<<"S3", "bucket", "name">>)]
    ELSE IF s.region = "" THEN [s |-> s, err |-> CannotBeEmpty(<<"S3", "region">>)]
    ELSE [s |-> s, err |-> NilError]

\* ValidateRsync with the port test reduced to s.Port == 0
ValidateRsyncPortAlways(s) ==
    IF s.path = "" THEN [s |-> s, err |-> CannotBeEmpty(<<"rsync", "path">>)]
    ELSE [s |-> [s EXCEPT !.port = IF @ = 0 THEN SSHDefaultPort ELSE @], err |-> NilError]

\* (*RsyncBackupSettings).Validate
ValidateRsync(s) ==
    IF s.path = "" THEN [s |-> s, err |-> CannotBeEmpty(<<"rsync", "path">>)]
    ELSE [s |-> [s EXCEPT !.port = IF s.host # "" /\ @ = 0 THEN SSHDefaultPort ELSE @],
          err |-> NilError]

\* (*GoogleDriveBackupSettings).Validate
ValidateGoogleDrive(s) ==
    IF s.credentials = ""
    THEN [s |-> s, err |-> CannotBeEmpty(<<"google", "drive", "credentials", "path">>)]
    ELSE [s |-> s, err |-> NilError]

\* Validate when SFTP targets are given FTP's routine
ValidateSFTPSharesFTP(s) ==
    CASE s.type = "local"  -> ValidateLocal(s)
      [] s.type = "ftp"    -> ValidateFTP(s)
      [] s.type = "sftp"   -> ValidateFTP(s)
      [] s.type = "s3"     -> ValidateS3(s)
      [] s.type = "rsync"  -> ValidateRsync(s)
      [] s.type = "gdrive" -> ValidateGoogleDrive(s)

\* s.Validate() through the BackupTargetSettings interface: the settings as
\* the call leaves them, and the error
Validate(s) ==
    CASE s.type = "local"  -> ValidateLocal(s)
      [] s.type = "ftp"    -> ValidateFTP(s)
      [] s.type = "sftp"   -> ValidateSFTP(s)
      [] s.type = "s3"     -> ValidateS3(s)
      [] s.type = "rsync"  -> ValidateRsync(s)
      [] s.type = "gdrive" -> ValidateGoogleDrive(s)

\* a caller takes the settings of a target
Validate_Call(p) ==
    /\ CanCall(p)
    /\ \E t \in TargetSettings :
         frame' = [frame EXCEPT ![p] = [op |-> "Validate", given |-> t, prev |-> t,
                                        s |-> t, err |-> NilError, runs |-> 0]]
    /\ pc' = [pc EXCEPT ![p] = "vl_run"]
    /\ calls' = calls + 1
    /\ UNCHANGED << storeVars, lockVars, speciesVars, onceState, viperVars,
                    fsVars, exited, ret, log >>

\* err := s.Validate(), a first and a second time
Validate_Run(p) ==
    /\ Running /\ pc[p] = "vl_run" /\ frame[p].runs < 2
    /\ LET r == Validate(frame[p].s)
       IN frame' = [frame EXCEPT ![p].prev = frame[p].s, ![p].s = r.s,
                                 ![p].err = r.err, ![p].runs = @ + 1]
    /\ UNCHANGED << storeVars, lockVars, speciesVars, onceState, viperVars,
                    fsVars, exited, pc, ret, calls, log >>

\* the caller is done with the target
Validate_Done(p) ==
    /\ Running /\ pc[p] = "vl_run" /\ frame[p].runs > 0
    /\ pc' = [pc EXCEPT ![p] = "idle"]
    /\ frame' = [frame EXCEPT ![p] = NoFrame]
    /\ UNCHANGED << storeVars, lockVars, speciesVars, onceState, viperVars,
                    fsVars, exited, ret, calls, log >>

InitValidate == InitCommon /\ doc = NoFile

NextValidate == Validate_Call(1) \/ Validate_Run(1) \/ Validate_Done(1)

SpecValidate == InitValidate /\ [][NextValidate]_vars

\* ------------------------------------------ backup targets: the discriminator
\* A BackupTarget is a type string, the enabled flag and the settings payload
\* (map[string]any).  The strings a document may give as type: the six
\* recognised ones, none, and one that names no variant.
DiscriminatorStrings == TargetTypes \cup {"", "webdav"}

Payloads ==
    [host : {"", "nas"}, port : Ports, username : {"", "birder"},
     path : {"", "/backup"}, bucket : {"", "birds"}, region : {"", "eu-north-1"},
     credentials : {"", "sa.json"}]

BackupTargets == [type : DiscriminatorStrings, enabled : BOOLEAN, settings : Payloads]

\* the settings struct of variant type filled from the payload
ResolveSettings(type, payload) == [type |-> type] @@ payload

\* the error for a discriminator that names no variant
UnknownTypeError(type) == <<"unsupported", "backup", "target", "type", type>>

\* the discriminator selects the variant, whose Validate runs on the payload;
\* a target is usable only when that returned no error
ValidateTarget(t) ==
    IF t.type \in TargetTypes
    THEN Validate(ResolveSettings(t.type, t.settings))
    ELSE [s |-> ResolveSettings(t.type, t.settings), err |-> UnknownTypeError(t.type)]

\* a caller takes a backup target of the configuration
ValidateTarget_Call(p) ==
    /\ CanCall(p)
    /\ \E t \in BackupTargets :
         frame' = [frame EXCEPT ![p] = [op |-> "ValidateTarget", target |-> t,
                                        s |-> ResolveSettings(t.type, t.settings),
                                        err |-> NilError, usable |-> FALSE,
                                        done |-> FALSE]]
    /\ pc' = [pc EXCEPT ![p] = "vt_run"]
    /\ calls' = calls + 1
    /\ UNCHANGED << storeVars, lockVars, speciesVars, onceState, viperVars,
                    fsVars, exited, ret, log >>

\* the target is resolved and validated
ValidateTarget_Run(p) ==
    /\ Running /\ pc[p] = "vt_run"
    /\ LET r == ValidateTarget(frame[p].target)
       IN frame' = [frame EXCEPT ![p].s = r.s, ![p].err = r.err,
                                 ![p].usable = (r.err = NilError), ![p].done = TRUE]
    /\ pc' = [pc EXCEPT ![p] = "vt_done"]
    /\ UNCHANGED << storeVars, lockVars, speciesVars, onceState, viperVars,
                    fsVars, exited, ret, calls, log >>

\* the caller is done with the target
ValidateTarget_Done(p) ==
    /\ Running /\ pc[p] = "vt_done"
    /\ pc' = [pc EXCEPT ![p] = "idle"]
    /\ frame' = [frame EXCEPT ![p] = NoFrame]
    /\ UNCHANGED << storeVars, lockVars, speciesVars, onceState, viperVars,
                    fsVars, exited, ret, calls, log >>

NextTargets == ValidateTarget_Call(1) \/ ValidateTarget_Run(1) \/ ValidateTarget_Done(1)

SpecTargets == InitValidate /\ [][NextTargets]_vars

\* ------------------------------------------------------ GenerateRandomSecret
\* Secrets are sequences of characters here, so that their length and their
\* alphabet are computed.
SecretBytes == 32       \* bytes := make([]byte, 32)

\* the alphabet of base64.URLEncoding, by 6-bit value + 1
encodeURL ==
    << "A", "B", "C", "D", "E", "F", "G", "H", "I", "J", "K", "L", "M", "N", "O", "P",
       "Q", "R", "S", "T", "U", "V", "W", "X", "Y", "Z", "a", "b", "c", "d", "e", "f",
       "g", "h", "i", "j", "k", "l", "m", "n", "o", "p", "q", "r", "s", "t", "u", "v",
       "w", "x", "y", "z", "0", "1", "2", "3", "4", "5", "6", "7", "8", "9", "-", "_" >>

\* the characters of n, a number of 6 * k bits, high bits first
RECURSIVE Sextets(_, _)
Sextets(n, k) ==
    IF k = 0 THEN <<>> ELSE Append(Sextets(n \div 64, k - 1), encodeURL[(n % 64) + 1])

\* EncodeToString of base64.URLEncoding: as the next definition, and a last
\* group of fewer than 3 bytes is filled up with "="
RECURSIVE EncodeToStringPadded(_)
EncodeToStringPadded(bytes) ==
    IF Len(bytes) = 0 THEN <<>>
    ELSE IF Len(bytes) = 1 THEN Sextets(bytes[1] * 16, 2) \o <<"=", "=">>
    ELSE IF Len(bytes) = 2 THEN Sextets((bytes[1] * 256 + bytes[2]) * 4, 3) \o <<"=">>
    ELSE Sextets(bytes[1] * 65536 + bytes[2] * 256 + bytes[3], 4)
         \o EncodeToStringPadded(SubSeq(bytes, 4, Len(bytes)))

\* base64.RawURLEncoding.EncodeToString(bytes): every 3 bytes give 4
\* characters; 1 or 2 bytes left over give 2 or 3, the missing bits being 0;
\* nothing is appended
RECURSIVE EncodeToString(_)
EncodeToString(bytes) ==
    IF Len(bytes) = 0 THEN <<>>
    ELSE IF Len(bytes) = 1 THEN Sextets(bytes[1] * 16, 2)
    ELSE IF Len(bytes) = 2 THEN Sextets((bytes[1] * 256 + bytes[2]) * 4, 3)
    ELSE Sextets(bytes[1] * 65536 + bytes[2] * 256 + bytes[3], 4)
         \o EncodeToString(SubSeq(bytes, 4, Len(bytes)))

\* what rand.Read may fill the buffer with: a few byte values, among them
\* those whose bits give the characters "-" and "_", repeated over the buffer
ByteChoices == {0, 77, 190, 239, 251, 255}
Entropy == { [i \in 1..SecretBytes |-> seed[((i - 1) % 3) + 1]] :
                seed \in [1..3 -> ByteChoices] }

\* GenerateRandomSecret(), up to the test of rand.Read's error
GenerateRandomSecret_Call(p) ==
    /\ CanCall(p)
    /\ \/ \E bytes \in Entropy :
            frame' = [frame EXCEPT ![p] = [op |-> "GenerateRandomSecret", bytes |-> bytes,
                                           failed |-> FALSE, logged |-> "none",
                                           out |-> <<>>, done |-> FALSE]]
       \/ frame' = [frame EXCEPT ![p] = [op |-> "GenerateRandomSecret",
                                         bytes |-> [i \in 1..SecretBytes |-> 0],
                                         failed |-> TRUE, logged |-> "none",
                                         out |-> <<>>, done |-> FALSE]]
    /\ pc' = [pc EXCEPT ![p] = "rs_read"]
    /\ calls' = calls + 1
    /\ UNCHANGED << storeVars, lockVars, speciesVars, onceState, viperVars,
                    fsVars, exited, ret, log >>

\* on an error: log.Printf of a System error, return ""; else the encoding
GenerateRandomSecret_Return(p) ==
    /\ Running /\ pc[p] = "rs_read"
    /\ frame' = [frame EXCEPT
                   ![p].logged = IF frame[p].failed THEN "System" ELSE "none",
                   ![p].out = IF frame[p].failed THEN <<>> ELSE EncodeToString(frame[p].bytes),
                   ![p].done = TRUE]
    /\ pc' = [pc EXCEPT ![p] = "rs_done"]
    /\ UNCHANGED << storeVars, lockVars, speciesVars, onceState, viperVars,
                    fsVars, exited, ret, calls, log >>

\* the caller is done with the secret
GenerateRandomSecret_Done(p) ==
    /\ Running /\ pc[p] = "rs_done"
    /\ pc' = [pc EXCEPT ![p] = "idle"]
    /\ frame' = [frame EXCEPT ![p] = NoFrame]
    /\ UNCHANGED << storeVars, lockVars, speciesVars, onceState, viperVars,
                    fsVars, exited, ret, calls, log >>

NextSecret ==
    \/ GenerateRandomSecret_Call(1) \/ GenerateRandomSecret_Return(1)
    \/ GenerateRandomSecret_Done(1)

SpecSecret == InitValidate /\ [][NextSecret]_vars

\* ------------------------------------------- the species-list refresher
\* The goroutine that recomputes the range-filter species list: it takes
\* speciesListMutex exclusively, gets the settings with GetSettings() while it
\* holds the lock, stores the new list and unlocks.  A refresh changes no
\* counter, so it may be repeated without bound.
SpeciesLists == {<<>>, <<"Parus major">>}

\* speciesListMutex.Lock(): takes the writer slot, which turns new readers
\* away
Refresher_Lock(p) ==
    /\ Running /\ pc[p] = "idle"
    /\ speciesWriter = None
    /\ speciesWriter' = p
    /\ pc' = [pc EXCEPT ![p] = "rf_wait"]
    /\ frame' = [frame EXCEPT ![p] = [op |-> "Refresher"]]
    /\ UNCHANGED << storeVars, lockVars, speciesReaders, onceState, viperVars,
                    fsVars, exited, ret, calls, log >>

\* the readers of the species list have left: the lock is held; next is
\* GetSettings()
Refresher_Locked(p) ==
    /\ Running /\ pc[p] = "rf_wait" /\ speciesWriter = p /\ speciesReaders = {}
    /\ pc' = [pc EXCEPT ![p] = "rf_get"]
    /\ UNCHANGED << storeVars, lockVars, speciesVars, onceState, viperVars,
                    fsVars, exited, frame, ret, calls, log >>

\* the new list is stored in the settings GetSettings() returned, if any;
\* speciesListMutex.Unlock()
Refresher_Store(p) ==
    /\ Running /\ pc[p] = "rf_store" /\ speciesWriter = p
    /\ IF ret[p] = None
       THEN UNCHANGED heap
       ELSE \E l \in SpeciesLists : heap' = [heap EXCEPT ![ret[p]].species = l]
    /\ speciesWriter' = None
    /\ pc' = [pc EXCEPT ![p] = "idle"]
    /\ frame' = [frame EXCEPT ![p] = NoFrame]
    /\ UNCHANGED << settingsInstance, lockVars, speciesReaders, onceState, viperVars,
                    fsVars, exited, ret, calls, log >>

RefresherNext(p) ==
    \/ Refresher_Lock(p) \/ Refresher_Locked(p) \/ Refresher_Store(p)
    \/ (pc[p] = "rf_get" /\ GetSettings_RLock(p))
    \/ (frame[p].op = "GetSettings" /\ GetSettings_Return(p))

\* three goroutines: one loads, one saves, one refreshes the species list
Goroutines == 1..(NumProcs + 1)

InitRefresh == InitFor(Goroutines) /\ doc \in StartDocs

NextRefresh ==
    \/ LoadNext(1)
    \/ SaveSettingsNext(2) \/ SaveYAMLConfigNext(2)
    \/ RefresherNext(3)

SpecRefresh == InitRefresh /\ [][NextRefresh]_vars

\* -------------------------------------------------------- GetWeatherSettings
\* Of OpenWeatherSettings the model keeps Enabled and APIKey; of the
\* Settings, Realtime.Weather.Provider, Realtime.Weather.OpenWeather and the
\* legacy block Realtime.OpenWeather.
Providers == {"", "none", "yrno", "openweather"}

OpenWeatherSettings == [enabled : BOOLEAN, apiKey : {"", "key"}]

\* OpenWeatherSettings{}
ZeroOpenWeather == [enabled |-> FALSE, apiKey |-> ""]

WeatherConfigs ==
    [provider : Providers, openWeather : OpenWeatherSettings,
     legacy : [enabled : BOOLEAN, apiKey : {"", "legacy-key"}]]

\* GetWeatherSettings with the legacy block looked at first
GetWeatherSettingsLegacyFirst(s) ==
    IF s.legacy.enabled
    THEN [provider |-> "openweather", openweather |-> s.legacy, s |-> s]
    ELSE IF s.provider # ""
         THEN [provider |-> s.provider, openweather |-> s.openWeather, s |-> s]
         ELSE [provider |-> "yrno", openweather |-> ZeroOpenWeather, s |-> s]

\* (s *Settings) GetWeatherSettings(): the two results, and the settings as
\* the call leaves them
GetWeatherSettings(s) ==
    IF s.provider # ""
    THEN [provider |-> s.provider, openweather |-> s.openWeather, s |-> s]
    ELSE IF s.legacy.enabled
         THEN [provider |-> "openweather", openweather |-> s.legacy, s |-> s]
         ELSE [provider |-> "yrno", openweather |-> ZeroOpenWeather, s |-> s]

\* a caller has settings with some weather configuration
GetWeatherSettings_Call(p) ==
    /\ CanCall(p)
    /\ \E w \in WeatherConfigs :
         frame' = [frame EXCEPT ![p] = [op |-> "GetWeatherSettings", given |-> w, s |-> w,
                                        provider |-> "", openweather |-> ZeroOpenWeather,
                                        done |-> FALSE]]
    /\ pc' = [pc EXCEPT ![p] = "ws_run"]
    /\ calls' = calls + 1
    /\ UNCHANGED << storeVars, lockVars, speciesVars, onceState, viperVars,
                    fsVars, exited, ret, log >>

\* provider, openweather := s.GetWeatherSettings()
GetWeatherSettings_Return(p) ==
    /\ Running /\ pc[p] = "ws_run"
    /\ LET r == GetWeatherSettings(frame[p].s)
       IN frame' = [frame EXCEPT ![p].provider = r.provider,
                                 ![p].openweather = r.openweather,
                                 ![p].s = r.s, ![p].done = TRUE]
    /\ pc' = [pc EXCEPT ![p] = "ws_done"]
    /\ UNCHANGED << storeVars, lockVars, speciesVars, onceState, viperVars,
                    fsVars, exited, ret, calls, log >>

\* the caller is done with the results
GetWeatherSettings_Done(p) ==
    /\ Running /\ pc[p] = "ws_done"
    /\ pc' = [pc EXCEPT ![p] = "idle"]
    /\ frame' = [frame EXCEPT ![p] = NoFrame]
    /\ UNCHANGED << storeVars, lockVars, speciesVars, onceState, viperVars,
                    fsVars, exited, ret, calls, log >>

NextWeather ==
    \/ GetWeatherSettings_Call(1) \/ GetWeatherSettings_Return(1)
    \/ GetWeatherSettings_Done(1)

SpecWeather == InitValidate /\ [][NextWeather]_vars

\* ======================================================================
\* Claims
\* ======================================================================
LoadBody == {"ld_initviper", "ld_createdefault", "ld_unmarshal", "ld_validate",
             "ld_return", "ld_fail"}
SaveBody == {"ss_species", "ss_speciescopy", "ss_find", "sv_createtemp", "sv_write",
             "sv_close", "sv_rename", "sv_move", "sv_defer", "sv_return", "ss_return"}

InLoad(p) == pc[p] \in LoadBody
InSave(p) == pc[p] \in SaveBody \/ (pc[p] = "ss_copy" /\ ReaderIn(p))
\* GetSettings is at "return settingsInstance"
InGet(p)  == pc[p] = "gs_read" /\ ReaderIn(p)

Complete(ref) == ref \in 1..Len(heap) /\ heap[ref].phase = "validated"

\* C1: whatever the interleaving of Load, GetSettings, SaveSettings and
\* Setting, the pointer GetSettings is about to return, and every pointer a
\* call has returned, is nil or a struct whose Load ran through parsing,
\* validation and installation; it is not nil once a Load has succeeded.
C1_VisibleInstanceComplete ==
    /\ \A p \in Procs :
         InGet(p) => /\ settingsInstance # None => Complete(settingsInstance)
                     /\ log.loadsOk > 0 => settingsInstance # None
    /\ \A p \in Procs : ret[p] # None => Complete(ret[p])

\* a reader is inside GetSettings, after a successful Load, while another
\* goroutine's Load has taken the writer slot
C1_Witness ==
    \E p, q \in Procs :
        /\ InGet(p) /\ log.loadsOk > 0 /\ settingsInstance # None
        /\ pc[q] = "ld_wait" /\ mutexWriter = q

\* C2 (as claimed): whenever SaveYAMLConfig is about to return an error, the
\* document is what it was when the call began.
C2_FailedSaveLeavesDocument ==
    \A p \in Procs :
        (pc[p] = "sv_return" /\ frame[p].err # NoErr) => doc = frame[p].before

C5_FailedLoadKeepsInstance ==
    [][ \A p \in Procs :
          (pc[p] = "ld_fail" /\ pc'[p] # "ld_fail")
             => /\ settingsInstance' = frame[p].before
                /\ settingsInstance' = settingsInstance
                /\ frame[p].err # NoErr
                /\ ret'[p] = None
                /\ exited' = exited ]_vars

\* a Load has failed in validation while an earlier instance is installed
C5_Witness ==
    \E p \in Procs :
        /\ pc[p] = "ld_fail" /\ frame[p].err.cat = "Validation"
        /\ frame[p].before # None /\ settingsInstance = frame[p].before

\* the messages of msgs that contain "fallback" or "not supported"
WarningsOf(msgs) ==
    SelectSeq(msgs, LAMBDA m : Contains(m, Fallback) \/ Contains(m, NotSupported))

\* C6: for every list of messages the validator produces, Load installs its
\* struct and succeeds exactly when every message contains "fallback" or
\* "not supported"; otherwise it fails with a Validation error and installs
\* nothing, wherever in the list the other message stands.
C6_WarningsOnlyIffSuccess ==
    \A p \in Procs :
        (InLoad(p) /\ frame[p].vkind = "messages")
            => LET msgs == frame[p].msgs
                   allWarnings == WarningsOf(msgs) = msgs
               IN /\ pc[p] = "ld_return" <=> allWarnings
                  /\ pc[p] = "ld_fail" <=> ~allWarnings
                  /\ allWarnings => /\ settingsInstance = frame[p].settings
                                    /\ frame[p].err = NoErr
                  /\ ~allWarnings => /\ settingsInstance = frame[p].before
                                     /\ frame[p].err.cat = "Validation"

\* a Load has failed on a list whose first message is a warning and whose
\* second is not
C6_Witness ==
    \E p \in Procs :
        /\ pc[p] = "ld_fail" /\ frame[p].vkind = "messages"
        /\ frame[p].msgs = <<MsgLocale, MsgPort>>

\* C7: when Load succeeds, the ValidationWarnings of the installed struct are
\* the warning messages of this Load's validation, once each and in order,
\* and nothing of an earlier Load's warnings.
C7_WarningsOfThisLoad ==
    \A p \in Procs :
        pc[p] = "ld_return"
            => /\ settingsInstance = frame[p].settings
               /\ heap[settingsInstance].warnings = WarningsOf(frame[p].msgs)

\* a Load with two warnings has succeeded over an instance that had one
C7_Witness ==
    \E p \in Procs :
        /\ pc[p] = "ld_return" /\ frame[p].msgs = <<MsgOS, MsgLocale>>
        /\ frame[p].before # None
        /\ heap[frame[p].before].warnings = <<MsgLocale>>

\* C8 (as claimed): once the function of once.Do has ended, Setting() has
\* performed exactly one Load.
C8_ExactlyOneLoad == onceState = "done" => log.settingLoads = 1

\* C8 (amended): Setting() performs at most one Load, inside the one run of
\* the function of once.Do, and performs none exactly when an instance was
\* already installed at that run's test; a call that does not run the
\* function goes straight to GetSettings.
C8_AtMostOneLoad ==
    /\ log.settingLoads <= 1
    /\ Cardinality({p \in Procs : pc[p] \in {"st_check", "st_load", "st_loaded"}
                                  \/ (frame[p].op = "Load" /\ frame[p].from = "Setting")}) <= 1
    /\ onceState = "fresh" => log.settingLoads = 0
    /\ (onceState = "done" /\ log.settingLoads = 0) => log.loadsOk > 0

\* two Setting() calls have returned and one Load was performed for them
C8_Witness == log.settingRets = 2 /\ log.settingLoads = 1

\* C9: if the Load inside once.Do fails, no Setting() call has returned or
\* returns, no second Load is tried, and the goroutine that ran it is at
\* log.Fatalf or the process has ended; and the pointer a Setting() call is
\* about to return is never nil.
C9_FatalOnFailedFirstLoad ==
    /\ log.settingFailed =>
          /\ log.settingRets = 0
          /\ log.settingLoads = 1
          /\ onceState = "running"
          /\ exited # "no" \/ \E p \in Procs : pc[p] = "st_loaded"
          /\ \A p \in Procs : pc[p] \notin {"st_get", "st_load", "st_check"}
          /\ \A p \in Procs : frame[p].op = "GetSettings" => frame[p].from # "Setting"
    /\ \A p \in Procs :
          (InGet(p) /\ frame[p].from = "Setting") => settingsInstance # None

\* the Load inside once.Do failed and log.Fatalf ended the process
C9_Witness == log.settingFailed /\ exited = "fatal"

\* C10 (as claimed): while a Load or a SaveSettings holds the lock, no other
\* goroutine is inside Load, SaveSettings or GetSettings.
C10_LoadAndSaveExclusive ==
    \A p, q \in Procs :
        (p # q /\ (InLoad(p) \/ InSave(p))) => ~(InLoad(q) \/ InSave(q) \/ InGet(q))

\* C10 (amended): Load holds the lock exclusively from its first statement
\* to its return: meanwhile no other goroutine is inside Load, SaveSettings
\* or GetSettings.  SaveSettings holds the lock shared from its first
\* statement to its return: meanwhile no goroutine is inside Load.
C10_LoadExclusiveSaveShared ==
    /\ \A p \in Procs : InLoad(p) => mutexWriter = p /\ mutexReaders = {}
    /\ \A p \in Procs : pc[p] \in SaveBody => ReaderIn(p)
    /\ \A p, q \in Procs :
          (p # q /\ InLoad(p)) => ~(InLoad(q) \/ InSave(q) \/ InGet(q))

\* a Load is validating while a reader that arrived meanwhile is parked
C10_Witness ==
    \E p, q \in Procs :
        /\ pc[p] = "ld_validate" /\ q \in mutexBlocked /\ pc[q] = "gs_read"

\* C11 (as claimed): SaveSettings neither waits for nor holds the
\* species-list lock while it holds the settings lock.
C11_SpeciesLockOutsideSettingsLock ==
    \A p \in Procs :
        (pc[p] = "ss_species" \/ p \in speciesReaders) => ~ReaderIn(p)

\* where a goroutine is between the first statement of SaveSettings and its
\* return
SavePcs == {"ss_copy"} \cup SaveBody

\* C12: no step of a SaveSettings call, from its first statement to its
\* return, with or without an error, changes settingsInstance or any field of
\* any Settings struct, the range-filter species list included.
C12_SaveLeavesInstance ==
    [][ \A p \in Procs :
          (pc'[p] # pc[p] /\ (pc[p] \in SavePcs \/ pc'[p] \in SavePcs))
             => /\ settingsInstance' = settingsInstance
                /\ heap' = heap ]_vars

\* a SaveSettings call is about to return nil with a species list and a
\* backup target in the live instance
C12_Witness ==
    \E p \in Procs :
        /\ pc[p] = "ss_return" /\ frame[p].err = NoErr
        /\ settingsInstance # None
        /\ heap[settingsInstance].species # <<>>
        /\ heap[settingsInstance].targets # "[]"

\* C13 (as claimed): whether or not an instance is installed, a SaveSettings
\* call that fails ends by returning an error, never in a panic; a goroutine
\* that is in no call holds no lock; and a save that is about to return an
\* error leaves the document what it was or a complete serialization.
C13_SaveFailureReturned ==
    /\ exited # "panic"
    /\ \A p \in Procs :
          pc[p] = "idle" => /\ p \notin (mutexReaders \cup mutexBlocked \cup speciesReaders)
                            /\ mutexWriter # p
    /\ \A p \in Procs :
          (pc[p] = "ss_return" /\ frame[p].op = "SaveYAMLConfig" /\ frame[p].err # NoErr)
             => doc \in {frame[p].before, frame[p].data}

\* C14 (as claimed): what SaveSettings gives the persister to write is the
\* serialization of the instance as it was when the copy was taken, whatever
\* is written to the live instance afterwards.
C14_SnapshotIsDeepCopy ==
    \A p \in Procs :
        (frame[p].op = "SaveYAMLConfig" /\ frame[p].from = "SaveSettings"
           /\ frame[p].err.op # "yaml-marshal")
            => frame[p].data = << <<KeyName, frame[p].copied.name>>,
                                  <<KeySecret, frame[p].copied.secret>>,
                                  <<KeyTargets, frame[p].copied.targets>> >>

\* the structs that have been installed
Installed == { i \in 1..Len(heap) : heap[i].phase = "validated" }

\* C15: a Load that succeeds has installed the struct it created, which is
\* not the one installed before; outside Load the current instance is the
\* struct installed last; the pointer a successful Load returns is the one
\* it installed; and no step changes a struct that was installed, so a
\* pointer obtained before a reload shows the old values.
C15_LoadSwapsFreshInstance ==
    /\ [](\A p \in Procs :
            /\ pc[p] = "ld_return" =>
                  /\ settingsInstance = frame[p].settings
                  /\ frame[p].settings # frame[p].before
                  /\ frame[p].settings \notin {ret[q] : q \in Procs}
            /\ (pc[p] = "idle" \/ InGet(p)) =>
                  /\ settingsInstance \in Installed \cup {None}
                  /\ \A i \in Installed : i <= settingsInstance)
    /\ [][ /\ \A i \in Installed : i <= Len(heap') /\ heap'[i] = heap[i]
           /\ \A p \in Procs :
                 (pc[p] = "ld_return" /\ pc'[p] # "ld_return")
                    => ret'[p] = frame[p].settings /\ settingsInstance' = ret'[p]
           /\ \A p \in Procs :
                 (InGet(p) /\ pc'[p] # pc[p]) => ret'[p] = settingsInstance ]_vars

\* a second Load has succeeded while the caller holds the pointer to the
\* instance of the first, whose values differ from the new one's
C15_Witness ==
    \E p \in Procs :
        /\ pc[p] = "ld_return" /\ frame[p].before # None
        /\ ret[p] = frame[p].before
        /\ heap[ret[p]].warnings # heap[settingsInstance].warnings

\* a Load is in createDefaultConfig or has been through it
Materializes(p) == pc[p] = "ld_createdefault" \/ frame[p].made # "no"

Field(st, key) ==
    IF key = KeyName THEN st.name
    ELSE IF key = KeySecret THEN st.secret
    ELSE st.targets

\* C18 (as claimed), for a process with no environment override: for every
\* key, a Load that succeeds yields the document's value if the document
\* defines one, and else the default if there is one.
C18_HighestLayerWins ==
    \A p \in Procs :
        pc[p] = "ld_return" =>
            \A key \in {KeyName, KeySecret, KeyTargets} :
                LET fromDoc     == DocValue(IF doc = NoFile THEN <<>> ELSE doc, key, "")
                    fromDefault == DocValue(getDefaultConfig, key, "")
                    yielded     == Field(heap[frame[p].settings], key)
                IN /\ fromDoc # "" => yielded = fromDoc
                   /\ (fromDoc = "" /\ fromDefault # "") => yielded = fromDefault

\* the required fields of a variant that are empty in t, in the order Validate
\* tests them
Missing(t) ==
    LET req == CASE t.type = "local"  -> << <<"path", t.path>> >>
                 [] t.type = "ftp"    -> << <<"host", t.host>> >>
                 [] t.type = "sftp"   -> << <<"host", t.host>>, <<"username", t.username>> >>
                 [] t.type = "s3"     -> << <<"bucket", t.bucket>>, <<"region", t.region>> >>
                 [] t.type = "rsync"  -> << <<"path", t.path>> >>
                 [] t.type = "gdrive" -> << <<"credentials path", t.credentials>> >>
        empty == SelectSeq(req, LAMBDA f : f[2] = "")
    IN [i \in 1..Len(empty) |-> empty[i][1]]

\* the port a variant falls back to, 0 when it has none
DefaultPortOf(t) ==
    CASE t.type = "ftp" -> 21
      [] t.type = "sftp" -> 22
      [] t.type = "rsync" /\ t.host # "" -> 22
      [] OTHER -> 0

\* C19: Validate on a target whose required fields are all present returns
\* nil and leaves the settings as given, except that a port of 0 becomes 21
\* for FTP, 22 for SFTP and 22 for Rsync with a host (an Rsync target without
\* host keeps 0); a second Validate changes nothing.
C19_PortDefaultedOnlyWhenZero ==
    \A p \in Procs :
        (frame[p].op = "Validate" /\ frame[p].runs > 0 /\ Missing(frame[p].given) = <<>>)
            => LET t == frame[p].given
               IN /\ frame[p].err = <<>>
                  /\ frame[p].s = [t EXCEPT !.port = IF t.port = 0 THEN DefaultPortOf(t)
                                                     ELSE t.port]
                  /\ frame[p].runs = 2 => frame[p].s = frame[p].prev

\* an Rsync target with a host and port 0 has been validated twice
C19_Witness ==
    \E p \in Procs :
        /\ frame[p].op = "Validate" /\ frame[p].runs = 2
        /\ frame[p].given.type = "rsync" /\ frame[p].given.host # ""
        /\ frame[p].given.path # "" /\ frame[p].given.port = 0
        /\ frame[p].s.port = 22

\* the words that name a field in an error message
FieldWords(f) == IF f = "credentials path" THEN <<"credentials", "path">> ELSE <<f>>

\* the word that names a variant in an error message
TypeWord(type) ==
    CASE type = "local" -> "local" [] type = "ftp" -> "FTP" [] type = "sftp" -> "SFTP"
      [] type = "s3" -> "S3" [] type = "rsync" -> "rsync" [] type = "gdrive" -> "google"

\* C20: the first Validate of a target returns an error exactly when a
\* required field of its variant is empty; the error then names the variant
\* and the first empty required field and no other required field, so that
\* every missing field has a message of its own.
C20_ErrorIffRequiredFieldEmpty ==
    \A p \in Procs :
        (frame[p].op = "Validate" /\ frame[p].runs = 1)
            => LET t == frame[p].given
                   missing == Missing(t)
                   err == frame[p].err
               IN /\ err # <<>> <=> missing # <<>>
                  /\ missing # <<>> =>
                        /\ Contains(err, FieldWords(missing[1]))
                        /\ err[1] = TypeWord(t.type)
                        /\ \A f \in {"path", "host", "username", "bucket", "region",
                                      "credentials path"} :
                              Contains(err, FieldWords(f)) =>
                                 \/ f = missing[1]
                                 \/ (f = "path" /\ missing[1] = "credentials path")

\* an FTP target with host "" has got an error that names host
C20_Witness ==
    \E p \in Procs :
        /\ frame[p].op = "Validate" /\ frame[p].runs = 1
        /\ frame[p].given.type = "ftp" /\ frame[p].given.host = ""
        /\ Contains(frame[p].err, <<"host">>)

SextetOf(c) == CHOOSE v \in 0..63 : encodeURL[v + 1] = c

\* the bytes a string of 4 * k + 3 characters without padding stands for
RECURSIVE DecodeString(_)
DecodeString(str) ==
    IF Len(str) < 3 THEN <<>>
    ELSE IF Len(str) = 3
         THEN LET n == (SextetOf(str[1]) * 4096 + SextetOf(str[2]) * 64 + SextetOf(str[3])) \div 4
              IN << n \div 256, n % 256 >>
         ELSE LET n == SextetOf(str[1]) * 262144 + SextetOf(str[2]) * 4096
                       + SextetOf(str[3]) * 64 + SextetOf(str[4])
              IN << n \div 65536, (n \div 256) % 256, n % 256 >>
                 \o DecodeString(SubSeq(str, 5, Len(str)))

Letters == {"A","B","C","D","E","F","G","H","I","J","K","L","M","N","O","P","Q","R","S","T",
            "U","V","W","X","Y","Z","a","b","c","d","e","f","g","h","i","j","k","l","m","n",
            "o","p","q","r","s","t","u","v","w","x","y","z"}
Digits == {"0","1","2","3","4","5","6","7","8","9"}

\* C22: GenerateRandomSecret returns "" exactly when the entropy source
\* failed, and then a System error has been logged and the call has returned
\* like any other; otherwise it returns 43 characters, each a letter, a
\* digit, "-" or "_" and none "=", which stand for the 32 bytes read.
C22_SecretShape ==
    \A p \in Procs :
        (frame[p].op = "GenerateRandomSecret" /\ frame[p].done)
            => LET out == frame[p].out
               IN /\ out = <<>> <=> frame[p].failed
                  /\ frame[p].failed => frame[p].logged = "System"
                  /\ exited = "no" /\ pc[p] = "rs_done"
                  /\ out # <<>> =>
                        /\ Len(out) = 43
                        /\ \A i \in 1..Len(out) : out[i] \in Letters \cup Digits \cup {"-", "_"}
                        /\ DecodeString(out) = frame[p].bytes

\* a secret with "-" and "_" in it has been returned
C22_Witness ==
    \E p \in Procs :
        /\ frame[p].op = "GenerateRandomSecret" /\ frame[p].done /\ ~frame[p].failed
        /\ \E i, j \in 1..Len(frame[p].out) : frame[p].out[i] = "-" /\ frame[p].out[j] = "_"

\* C23: a Load that reads a document SaveYAMLConfig wrote in this run (a
\* complete document that is neither the one found at start-up nor the
\* template) yields, for every persisted field, the value of the snapshot
\* that was written; the runtime-only fields are those Load computes: the
\* warnings of its own validation and no species list.
C23_RoundTrip ==
    \A p \in Procs :
        (pc[p] = "ld_return" /\ frame[p].read = "ok"
            /\ doc # NoFile /\ Len(doc) = 3 /\ doc \notin StartDocs)
            => LET loaded == heap[frame[p].settings]
               IN /\ \A s \in Snapshots :
                        doc = Marshal(s) =>
                            /\ loaded.name = s.name
                            /\ loaded.secret = s.secret
                            /\ loaded.targets = s.targets
                  /\ loaded.warnings = WarningsOf(frame[p].msgs)
                  /\ loaded.species = <<>>

\* the file-system calls of SaveYAMLConfig, in the order the claim gives
SaveOrder == <<"create-temp", "write", "close", "rename", "move">>

\* C24: when SaveYAMLConfig is about to return, the calls it has made are
\* the first ones of create-temp, write, close, rename, fallback, the
\* temporary file having been created in the directory of the destination;
\* every call before the last succeeded, but for a failed rename; the
\* fallback is made only after a failed rename, and after every one that
\* failed for being across file systems, and then the outcome of the call
\* is the fallback's; the call returns nil exactly when
\* the rename or else the fallback succeeded, so that a failed rename gives
\* an error only together with a failed fallback.
C24_RenameThenFallback ==
    \A p \in Procs :
        (pc[p] \in {"sv_defer", "sv_return"} /\ frame[p].op = "SaveYAMLConfig")
            => LET st == frame[p].steps
                   n == Len(st)
                   ok == frame[p].err = NoErr
               IN /\ n <= 5 /\ \A i \in 1..n : st[i][1] = SaveOrder[i]
                  /\ n >= 1 /\ st[1][2] = "ok" => frame[p].tempDir = "Dir(configPath)"
                  /\ \A i \in 1..(n - 1) : st[i][2] = "ok" \/ i = 4
                  /\ n = 5 => st[4][2] # "ok"
                  /\ frame[p].renameErr # "" => (n = 5 /\ st[4][2] = "error")
                  /\ frame[p].renameErr = "EXDEV" => (ok <=> st[5][2] = "ok")
                  /\ ok <=> (n >= 4 /\ st[n][2] = "ok")
                  /\ (n >= 4 /\ ~ok) => (n = 5 /\ st[4][2] # "ok" /\ st[5][2] # "ok")

\* a rename across file systems has failed, the fallback has succeeded and
\* the call returns nil with the document replaced
C24_Witness ==
    \E p \in Procs :
        /\ pc[p] = "sv_defer" /\ frame[p].op = "SaveYAMLConfig"
        /\ Len(frame[p].steps) = 5
        /\ frame[p].steps[4] = <<"rename", "error">> /\ frame[p].renameErr = "EXDEV"
        /\ frame[p].steps[5] = <<"move", "ok">>
        /\ frame[p].err = NoErr /\ doc = frame[p].data

\* C25: once createDefaultConfig has written the document, the document is
\* the embedded template, line for line; a secret that was generated is the
\* override held by viper and is not the document's secret; and a secret is
\* generated by createDefaultConfig exactly when the configured client secret
\* is empty as it starts, the override staying as it was otherwise.
C25_TemplateWrittenVerbatim ==
    /\ [](\A p \in Procs :
            (InLoad(p) /\ frame[p].made \in {"ok", "reread-error"})
                => /\ doc = getDefaultConfig
                   /\ frame[p].gen # <<>> =>
                        /\ viperOverride = frame[p].gen
                        /\ frame[p].gen[1] # "" =>
                              \A i \in 1..Len(doc) : doc[i][2] # frame[p].gen[1])
    /\ [][\A p \in Procs :
            (pc[p] = "ld_createdefault" /\ pc'[p] # "ld_createdefault"
                /\ frame'[p].made # "paths-error")
                => /\ frame'[p].gen # <<>> <=> ViperGet(KeySecret) = ""
                   /\ frame'[p].gen = <<>> => viperOverride' = viperOverride]_vars

\* a document has been materialized with a generated secret that is not
\* empty, and the struct has been filled from it
C25_Witness ==
    \E p \in Procs :
        /\ pc[p] = "ld_validate" /\ frame[p].made = "ok"
        /\ frame[p].gen = <<"r4nd0m">>
        /\ doc = getDefaultConfig
        /\ heap[frame[p].settings].secret = "r4nd0m"

\* a step of a goroutine that is inside a call
StepOfRunningCall ==
    /\ NextRefresh
    /\ \E p \in DOMAIN pc : pc[p] # "idle" /\ pc'[p] # pc[p]

\* C26: with Load, SaveSettings and the refresher of the species list
\* running together, there is no state in which calls are in progress and
\* none of them can take a step.
C26_NoDeadlock ==
    (Running /\ \E p \in DOMAIN pc : pc[p] # "idle") => ENABLED StepOfRunningCall

\* C27: a Validate that returns an error leaves every field of the
\* settings, the port included, as it was before the call.
C27_ErrorLeavesSettings ==
    \A p \in Procs :
        (frame[p].op = "Validate" /\ frame[p].runs > 0 /\ frame[p].err # NilError)
            => frame[p].s = frame[p].prev

\* both goroutines are in SaveSettings, hold the shared lock, and their
\* SaveYAMLConfig has returned
BothSaved ==
    \A p \in Procs :
        pc[p] = "ss_return" /\ ReaderIn(p) /\ frame[p].op = "SaveYAMLConfig"

C29_ProviderPrecedence ==
    \A p \in Procs :
        (frame[p].op = "GetWeatherSettings" /\ frame[p].done)
            => LET w == frame[p].given
               IN /\ frame[p].s = w
                  /\ w.provider # "" =>
                        /\ frame[p].provider = w.provider
                        /\ frame[p].openweather = w.openWeather
                  /\ (w.provider = "" /\ w.legacy.enabled) =>
                        /\ frame[p].provider = "openweather"
                        /\ frame[p].openweather = w.legacy
                  /\ (w.provider = "" /\ ~w.legacy.enabled) =>
                        /\ frame[p].provider = "yrno"
                        /\ frame[p].openweather = ZeroOpenWeather

\* the provider is "yrno" and the legacy block is enabled with a key: the
\* call has returned "yrno" and the new block
C29_Witness ==
    \E p \in Procs :
        /\ frame[p].op = "GetWeatherSettings" /\ frame[p].done
        /\ frame[p].given.provider = "yrno"
        /\ frame[p].given.legacy = [enabled |-> TRUE, apiKey |-> "legacy-key"]
        /\ frame[p].provider = "yrno"
        /\ frame[p].openweather = frame[p].given.openWeather
====
